---- MODULE Spec2Model ----
(***************************************************************************)
(* A model of the static site generator (build.py, deploy.py).             *)
(*                                                                         *)
(* Text is modelled as a sequence of characters (one-character strings);   *)
(* a few multi-character tokens stand for text whose inside is never       *)
(* inspected by the code under study (a four-digit year "2024", the file   *)
(* extension ".html", an HTML tag "<p>").                                  *)
(***************************************************************************)
EXTENDS Integers, Sequences, FiniteSets, TLC

VARIABLES
    pc,              \* position of the run: see the actions
    postFiles,       \* content/posts/*.md in glob order (the input)
    pageFiles,       \* content/pages/*.md in glob order (the input)
    templatesOnDisk, \* TRUE when templates/ holds base, post and index
    staticOnDisk,    \* TRUE when the static directory exists
    output,          \* the output directory: [exists, files]
    templates,       \* the dict of loaded templates
    posts,           \* the list of Post objects
    pageIdx,         \* the number of pages processed
    written,         \* the paths opened for writing by this build, in order
    indexEntries,    \* the posts rendered into index.html
    feedItems,       \* the posts rendered into feed.xml
    archive,         \* the year groups rendered into archive.html
    tpl,             \* render_template on its own: the template
    ctx,             \* render_template on its own: the keyword arguments
    rendered,        \* render_template on its own: the result
    mathText,        \* MathPreprocessor.run: the joined lines between passes
    inlineMatches    \* MathPreprocessor.run: what the inline pass matched

vars == <<pc, postFiles, pageFiles, templatesOnDisk, staticOnDisk, output,
          templates, posts, pageIdx, written, indexEntries, feedItems, archive,
          tpl, ctx, rendered, mathText,
          inlineMatches>>

buildVars == <<postFiles, pageFiles, templatesOnDisk, staticOnDisk, output,
               templates, posts, pageIdx, written, indexEntries, feedItems,
               archive>>

renderVars == <<tpl, ctx, rendered>>

mathVars == <<mathText, inlineMatches>>

(***************************************************************************)
(* Bounds of the model.                                                    *)
(***************************************************************************)
MaxPosts == 3
MaxPages == 1
MaxPostsWithPages == 1
MaxMany == 11
MaxPieces == 3

MaxMathPieces == 5

(***************************************************************************)
(* Program constants.                                                      *)
(***************************************************************************)
IndexLimit == 5
FeedLimit == 10
DescLimit == 200

(***************************************************************************)
(* Python values.                                                          *)
(***************************************************************************)
\* Python's None for an attribute that otherwise holds a string.
None == <<"<None>">>

\* str(x) as an f-string formats it.
Str(x) == IF x = None THEN <<"N", "o", "n", "e">> ELSE x

\* Truth value of an optional string: None and '' are false.
Truthy(x) == x # None /\ x # <<>>

\* post.date is None.
NoDate == [year |-> 0, month |-> 0, day |-> 0]

\* datetime.min
DateMin == [year |-> 1, month |-> 1, day |-> 1]

\* datetime.__lt__
DateLess(a, b) ==
    \/ a.year < b.year
    \/ a.year = b.year /\ a.month < b.month
    \/ a.year = b.year /\ a.month = b.month /\ a.day < b.day

Min(a, b) == IF a < b THEN a ELSE b

(***************************************************************************)
(* Characters.                                                             *)
(***************************************************************************)
LowerLetters == {"a", "b", "d", "e", "i", "n", "p", "x"}
UpperLetters == {"A", "B", "D", "E", "I", "N", "P", "X"}
Digits == {"0", "1", "2", "3", "4", "5", "6", "7", "8", "9"}

\* \w of the re module
WordChars == LowerLetters \cup UpperLetters \cup Digits \cup {"_"}

\* \s of the re module
SpaceChars == {" "}

\* The lower-case and upper-case forms of the letters, pairwise
CasePairs ==
    { <<"a", "A">>, <<"b", "B">>, <<"d", "D">>, <<"e", "E">>,
      <<"i", "I">>, <<"n", "N">>, <<"p", "P">>, <<"x", "X">> }

\* str.lower on one character
LowerChar(c) ==
    IF c \in UpperLetters THEN (CHOOSE pr \in CasePairs : pr[2] = c)[1] ELSE c

\* str.upper on one character
UpperChar(c) ==
    IF c \in LowerLetters THEN (CHOOSE pr \in CasePairs : pr[1] = c)[2] ELSE c

\* str.lower
Lower(s) == [i \in 1..Len(s) |-> LowerChar(s[i])]

\* str.replace('-', ' ')
HyphensToSpaces(s) == [i \in 1..Len(s) |-> IF s[i] = "-" THEN " " ELSE s[i]]

IsCased(c) == c \in LowerLetters \cup UpperLetters

\* str.title: a cased character is upper-cased after an uncased one and
\* lower-cased after a cased one.
TitleCase(s) ==
    [i \in 1..Len(s) |->
        IF i > 1 /\ IsCased(s[i - 1]) THEN LowerChar(s[i]) ELSE UpperChar(s[i])]

RECURSIVE LStrip(_, _)
\* str.lstrip(chars)
LStrip(s, chars) ==
    IF s # <<>> /\ Head(s) \in chars THEN LStrip(Tail(s), chars) ELSE s

RECURSIVE RStrip(_, _)
\* str.rstrip(chars)
RStrip(s, chars) ==
    IF s # <<>> /\ s[Len(s)] \in chars
    THEN RStrip(SubSeq(s, 1, Len(s) - 1), chars)
    ELSE s

\* str.strip(chars)
Strip(s, chars) == RStrip(LStrip(s, chars), chars)

RECURSIVE SplitOn(_, _, _)
\* str.split(sep) for a one-character separator; cur is the piece being read
SplitOn(s, sep, cur) ==
    IF s = <<>> THEN <<cur>>
    ELSE IF Head(s) = sep THEN <<cur>> \o SplitOn(Tail(s), sep, <<>>)
    ELSE SplitOn(Tail(s), sep, Append(cur, Head(s)))

RECURSIVE Flatten(_)
\* ''.join(list)
Flatten(ss) == IF ss = <<>> THEN <<>> ELSE Head(ss) \o Flatten(Tail(ss))

(***************************************************************************)
(* Dates: datetime.strptime(value, '%Y-%m-%d').                            *)
(* A date text is a sequence of tokens: digit groups and separators.       *)
(***************************************************************************)
Digits4 == {"0000", "0001", "2023", "2024"}
Digits2 == {"01", "02", "12", "13", "30"}
Digits1 == {"1", "5"}

NumVal(t) ==
    CASE t = "0000" -> 0
      [] t = "0001" -> 1
      [] t = "2023" -> 2023
      [] t = "2024" -> 2024
      [] t = "01" -> 1
      [] t = "02" -> 2
      [] t = "12" -> 12
      [] t = "13" -> 13
      [] t = "30" -> 30
      [] t = "1" -> 1
      [] t = "5" -> 5
      [] OTHER -> 0

IsLeap(y) == (y % 4 = 0 /\ y % 100 # 0) \/ y % 400 = 0

DaysInMonth(y, m) ==
    IF m = 2 THEN (IF IsLeap(y) THEN 29 ELSE 28)
    ELSE IF m \in {4, 6, 9, 11} THEN 30 ELSE 31

\* TRUE when strptime raises ValueError: %Y takes four digits, %m and %d
\* one or two, and the three numbers must make a date.
StrptimeFails(v) ==
    \/ Len(v) # 5
    \/ /\ Len(v) = 5
       /\ \/ v[1] \notin Digits4
          \/ v[2] # "-"
          \/ v[3] \notin Digits2 \cup Digits1
          \/ v[4] # "-"
          \/ v[5] \notin Digits2 \cup Digits1
          \/ NumVal(v[1]) < 1
          \/ NumVal(v[3]) \notin 1..12
          \/ NumVal(v[5]) \notin 1..DaysInMonth(NumVal(v[1]), NumVal(v[3]))

\* the datetime strptime returns when it does not raise
Strptime(v) == [year |-> NumVal(v[1]), month |-> NumVal(v[3]), day |-> NumVal(v[5])]

(***************************************************************************)
(* Source files.  A source file is                                         *)
(*   [stem, fm, closed, header, body]                                      *)
(* stem: the file name without ".md"; fm: the text starts with "---\n";    *)
(* closed: a second "---\n" follows; header: the lines between the two,    *)
(* each [colon, key, val] (colon: the line contains ':'; key: the text     *)
(* before the first ':', stripped; val: the text after it); body: the      *)
(* rest of the text.                                                       *)
(***************************************************************************)
QuoteChars == {"\"", "'"}

NewPost(filepath) ==
    [filepath |-> filepath, slug |-> None, title |-> None, date |-> NoDate, tags |-> <<>>,
     description |-> <<>>, content |-> <<>>,
     has_math |-> FALSE, has_mermaid |-> FALSE]

\* One iteration of the loop of parse_frontmatter as it would be if a line
\* without a colon or with an unknown key raised an error.
FrontmatterLineStrict(p, line) ==
    LET value == Strip(line.val, SpaceChars)
        unq == Strip(value, QuoteChars)
    IN  IF ~line.colon THEN [ok |-> FALSE, post |-> p]
        ELSE IF line.key = "title"
            THEN [ok |-> TRUE, post |-> [p EXCEPT !.title = unq]]
        ELSE IF line.key = "date"
            THEN IF StrptimeFails(unq)
                 THEN [ok |-> FALSE, post |-> p]
                 ELSE [ok |-> TRUE, post |-> [p EXCEPT !.date = Strptime(unq)]]
        ELSE IF line.key = "slug"
            THEN [ok |-> TRUE, post |-> [p EXCEPT !.slug = unq]]
        ELSE IF line.key = "tags"
            THEN LET parts == SplitOn(Strip(value, {"[", "]"}), ",", <<>>)
                 IN  [ok |-> TRUE,
                      post |-> [p EXCEPT !.tags =
                          [i \in 1..Len(parts) |-> Strip(parts[i], SpaceChars)]]]
        ELSE IF line.key = "description"
            THEN [ok |-> TRUE, post |-> [p EXCEPT !.description = unq]]
        ELSE [ok |-> FALSE, post |-> p]

\* One iteration of the loop of parse_frontmatter as it would be with the
\* ValueError of strptime caught and the date left unset.
FrontmatterLineLenient(p, line) ==
    LET value == Strip(line.val, SpaceChars)
        unq == Strip(value, QuoteChars)
    IN  IF ~line.colon THEN [ok |-> TRUE, post |-> p]
        ELSE IF line.key = "title"
            THEN [ok |-> TRUE, post |-> [p EXCEPT !.title = unq]]
        ELSE IF line.key = "date"
            THEN IF StrptimeFails(unq)
                 THEN [ok |-> TRUE, post |-> p]
                 ELSE [ok |-> TRUE, post |-> [p EXCEPT !.date = Strptime(unq)]]
        ELSE IF line.key = "slug"
            THEN [ok |-> TRUE, post |-> [p EXCEPT !.slug = unq]]
        ELSE IF line.key = "tags"
            THEN LET parts == SplitOn(Strip(value, {"[", "]"}), ",", <<>>)
                 IN  [ok |-> TRUE,
                      post |-> [p EXCEPT !.tags =
                          [i \in 1..Len(parts) |-> Strip(parts[i], SpaceChars)]]]
        ELSE IF line.key = "description"
            THEN [ok |-> TRUE, post |-> [p EXCEPT !.description = unq]]
        ELSE [ok |-> TRUE, post |-> p]

\* One iteration of the loop of parse_frontmatter.  ok = FALSE: strptime
\* raised ValueError.
FrontmatterLine(p, line) ==
    LET value == Strip(line.val, SpaceChars)
        unq == Strip(value, QuoteChars)
    IN  IF ~line.colon THEN [ok |-> TRUE, post |-> p]
        ELSE IF line.key = "title"
            THEN [ok |-> TRUE, post |-> [p EXCEPT !.title = unq]]
        ELSE IF line.key = "date"
            THEN IF StrptimeFails(unq)
                 THEN [ok |-> FALSE, post |-> p]
                 ELSE [ok |-> TRUE, post |-> [p EXCEPT !.date = Strptime(unq)]]
        ELSE IF line.key = "slug"
            THEN [ok |-> TRUE, post |-> [p EXCEPT !.slug = unq]]
        ELSE IF line.key = "tags"
            THEN LET parts == SplitOn(Strip(value, {"[", "]"}), ",", <<>>)
                 IN  [ok |-> TRUE,
                      post |-> [p EXCEPT !.tags =
                          [i \in 1..Len(parts) |-> Strip(parts[i], SpaceChars)]]]
        ELSE IF line.key = "description"
            THEN [ok |-> TRUE, post |-> [p EXCEPT !.description = unq]]
        ELSE [ok |-> TRUE, post |-> p]

RECURSIVE FrontmatterLines(_, _)
\* The loop of parse_frontmatter over the header lines.
FrontmatterLines(p, lines) ==
    IF lines = <<>> THEN [ok |-> TRUE, post |-> p]
    ELSE LET r == FrontmatterLine(p, Head(lines))
         IN  IF r.ok THEN FrontmatterLines(r.post, Tail(lines)) ELSE r

RECURSIVE KeepSlugChars(_)
\* re.sub(r'[^\w\s-]', '', s)
KeepSlugChars(s) ==
    IF s = <<>> THEN <<>>
    ELSE IF Head(s) \in WordChars \cup SpaceChars \cup {"-"}
         THEN <<Head(s)>> \o KeepSlugChars(Tail(s))
         ELSE KeepSlugChars(Tail(s))

RECURSIVE CollapseRuns(_)
\* re.sub(r'[-\s]+', '-', s)
CollapseRuns(s) ==
    IF s = <<>> THEN <<>>
    ELSE IF Head(s) \in SpaceChars \cup {"-"}
         THEN <<"-">> \o CollapseRuns(LStrip(s, SpaceChars \cup {"-"}))
         ELSE <<Head(s)>> \o CollapseRuns(Tail(s))

\* The slug generated from the title
Slugify(title) == CollapseRuns(KeepSlugChars(Lower(title)))

\* Post.parse_frontmatter
parse_frontmatter(p, lines) ==
    LET r == FrontmatterLines(p, lines)
    IN  IF ~r.ok THEN r
        ELSE IF ~Truthy(r.post.slug) /\ Truthy(r.post.title)
             THEN [ok |-> TRUE, post |-> [r.post EXCEPT !.slug = Slugify(r.post.title)]]
             ELSE r

\* re.match(r'(\d{4}-\d{2}-\d{2})-(.+)', filename)
FilenameMatches(stem) ==
    /\ Len(stem) >= 7
    /\ stem[1] \in Digits4
    /\ stem[2] = "-"
    /\ stem[3] \in Digits2
    /\ stem[4] = "-"
    /\ stem[5] \in Digits2
    /\ stem[6] = "-"

\* The metadata taken from the file name when there is no front matter
FromFilename(p, stem) ==
    IF ~FilenameMatches(stem) THEN [ok |-> TRUE, post |-> p]
    ELSE IF StrptimeFails(SubSeq(stem, 1, 5)) THEN [ok |-> FALSE, post |-> p]
    ELSE LET rest == SubSeq(stem, 7, Len(stem))
         IN  [ok |-> TRUE,
              post |-> [p EXCEPT !.date = Strptime(SubSeq(stem, 1, 5)),
                                 !.slug = rest,
                                 !.title = TitleCase(HyphensToSpaces(rest))]]

\* markdown.Markdown(...).convert(content.strip()): the external converter,
\* which wraps the text of a non-empty body in a paragraph.
Convert(body) ==
    LET text == Strip(body, SpaceChars)
    IN  IF text = <<>> THEN <<>> ELSE <<"<p>">> \o text \o <<"</p>">>

RECURSIVE StripTags(_)
\* re.sub(r'<[^>]+>', '', html)
StripTags(html) ==
    IF html = <<>> THEN <<>>
    ELSE IF Head(html) \in {"<p>", "</p>"} THEN StripTags(Tail(html))
    ELSE <<Head(html)>> \o StripTags(Tail(html))

\* The description taken from the rendered content
Excerpt(html) ==
    LET text == SubSeq(StripTags(html), 1, Min(DescLimit, Len(StripTags(html))))
    IN  IF Len(text) >= DescLimit
        THEN Strip(text, SpaceChars) \o <<".", ".", ".">>
        ELSE Strip(text, SpaceChars)

\* Post.__init__ and Post.parse_content.  ok = FALSE: an exception left the
\* constructor (strptime's ValueError, or the ValueError of unpacking the
\* split of a header that is never closed).
parse_content(file) ==
    LET r == IF file.fm
             THEN IF file.closed
                  THEN parse_frontmatter(NewPost(file.stem), file.header)
                  ELSE [ok |-> FALSE, post |-> NewPost(file.stem)]
             ELSE FromFilename(NewPost(file.stem), file.stem)
        html == Convert(file.body)
    IN  IF ~r.ok THEN r
        ELSE [ok |-> TRUE,
              post |-> [r.post EXCEPT
                  !.has_math = \E i \in 1..Len(file.body) :
                                   file.body[i] \in {"$", "\\[", "\\("},
                  !.has_mermaid = \E i \in 1..Len(file.body) :
                                      file.body[i] = "FENCE_mermaid",
                  !.content = html,
                  !.description = IF r.post.description = <<>>
                                  THEN Excerpt(html) ELSE @]]

(***************************************************************************)
(* Templates.  The name of a placeholder is a sequence of characters; the  *)
(* names the generator itself uses are written as one token.               *)
(***************************************************************************)
\* f'{{{{{key}}}}}'
Placeholder(key) == <<"{", "{">> \o key \o <<"}", "}">>

\* f'{{{{ {key} }}}}'
SpacedPlaceholder(key) == <<"{", "{", " ">> \o key \o <<" ", "}", "}">>

RECURSIVE Replace(_, _, _)
\* str.replace(old, new) for a non-empty old: the non-overlapping
\* occurrences, found from the left.
Replace(s, old, new) ==
    IF Len(s) < Len(old) THEN s
    ELSE IF SubSeq(s, 1, Len(old)) = old
         THEN new \o Replace(SubSeq(s, Len(old) + 1, Len(s)), old, new)
         ELSE <<Head(s)>> \o Replace(Tail(s), old, new)

RECURSIVE render_template(_, _)
\* render_template(template, **context); context is the sequence of the
\* keyword arguments [key, value] in the order of the call.
render_template(template, context) ==
    IF context = <<>> THEN template
    ELSE LET key == Head(context).key
             value == Head(context).value
             t1 == Replace(template, Placeholder(key), value)
             t2 == Replace(t1, SpacedPlaceholder(key), value)
         IN  render_template(t2, Tail(context))

\* The templates directory when it holds the three templates
DiskTemplates ==
    [base |-> <<"<html>">> \o Placeholder(<<"title">>)
                  \o SpacedPlaceholder(<<"content">>) \o <<"</html>">>,
     post |-> <<"<article>">> \o Placeholder(<<"title">>)
                  \o Placeholder(<<"date">>) \o Placeholder(<<"content">>)
                  \o Placeholder(<<"tags">>) \o <<"</article>">>,
     index |-> <<"<main>">> \o Placeholder(<<"posts">>) \o <<"</main>">>]

\* load_template(name) for each of the three names: '' when the file is
\* missing.
load_templates(onDisk) ==
    IF onDisk THEN DiskTemplates
    ELSE [base |-> <<>>, post |-> <<>>, index |-> <<>>]

\* 'true' if flag else 'false'
BoolText(flag) == IF flag THEN <<"true">> ELSE <<"false">>

\* date.strftime(...): the formatted date as one token per field
DateText(d) ==
    IF d = NoDate THEN <<>>
    ELSE <<ToString(d.year), "-", ToString(d.month), "-", ToString(d.day)>>

SiteTitle == <<"SITE_TITLE">>

\* ' '.join(f'<span class="tag">{tag}</span>' for tag in post.tags)
TagsHtml(tags) ==
    Flatten([i \in 1..Len(tags) |->
        (IF i > 1 THEN <<" ">> ELSE <<>>) \o <<"<span>">> \o tags[i] \o <<"</span>">>])

\* The two renders shared by generate_post_page and the page loop of
\* generate_site: the post template, then the base layout.
RenderDocument(doc, tmpl, dateText, tagsHtml) ==
    LET inner == render_template(tmpl.post,
                    << [key |-> <<"title">>, value |-> Str(doc.title)],
                       [key |-> <<"date">>, value |-> dateText],
                       [key |-> <<"content">>, value |-> doc.content],
                       [key |-> <<"tags">>, value |-> tagsHtml],
                       [key |-> <<"has_math">>, value |-> BoolText(doc.has_math)],
                       [key |-> <<"has_mermaid">>, value |-> BoolText(doc.has_mermaid)] >>)
    IN  render_template(tmpl.base,
            << [key |-> <<"title">>, value |-> Str(doc.title) \o <<" ", "-", " ">> \o SiteTitle],
               [key |-> <<"content">>, value |-> inner],
               [key |-> <<"site_title">>, value |-> SiteTitle],
               [key |-> <<"has_math">>, value |-> BoolText(doc.has_math)],
               [key |-> <<"has_mermaid">>, value |-> BoolText(doc.has_mermaid)] >>)

\* The base layout around an aggregate page
RenderInBase(tmpl, title, content) ==
    render_template(tmpl.base,
        << [key |-> <<"title">>, value |-> title],
           [key |-> <<"content">>, value |-> content],
           [key |-> <<"site_title">>, value |-> SiteTitle],
           [key |-> <<"has_math">>, value |-> <<"false">>],
           [key |-> <<"has_mermaid">>, value |-> <<"false">>] >>)

(***************************************************************************)
(* The output directory: [exists, files], files a function from the paths  *)
(* below the directory to the text of the file.                            *)
(***************************************************************************)
NoFiles == [p \in {} |-> <<>>]

\* open(path, 'w').write(html)
WriteFile(files, path, html) ==
    [q \in DOMAIN files \cup {path} |-> IF q = path THEN html ELSE files[q]]

\* Path(OUTPUT_DIR) / 'posts' / f'{post.slug}.html'
PostPath(p) == <<"posts/">> \o Str(p.slug) \o <<".html">>

\* Path(OUTPUT_DIR) / f'{page.slug}.html'
PagePath(p) == Str(p.slug) \o <<".html">>

IndexPath == <<"i", "n", "d", "e", "x", ".html">>
ArchivePath == <<"a", "r", "c", "h", "i", "v", "e", ".html">>
FeedPath == <<"f", "e", "e", "d", ".xml">>
StaticPath == <<"static/">>

\* generate_post_page: the page written for one post
generate_post_page(p, tmpl) ==
    [path |-> PostPath(p),
     html |-> RenderDocument(p, tmpl, DateText(p.date), TagsHtml(p.tags))]

\* The html written for one page by the page loop of generate_site
generate_page(p, tmpl) ==
    [path |-> PagePath(p), html |-> RenderDocument(p, tmpl, <<>>, <<>>)]

(***************************************************************************)
(* Sort and the aggregate pages.                                           *)
(***************************************************************************)
\* key=lambda x: x.date or datetime.min
SortKey(p) == IF p.date = NoDate THEN DateMin ELSE p.date

RECURSIVE InsertDesc(_, _)
\* x placed behind every element whose key is not smaller than its own
InsertDesc(sorted, x) ==
    IF sorted = <<>> THEN <<x>>
    ELSE IF DateLess(SortKey(Head(sorted)), SortKey(x))
         THEN <<x>> \o sorted
         ELSE <<Head(sorted)>> \o InsertDesc(Tail(sorted), x)

RECURSIVE SortDesc(_, _)
SortDesc(acc, rest) ==
    IF rest = <<>> THEN acc
    ELSE SortDesc(InsertDesc(acc, Head(rest)), Tail(rest))

\* posts.sort(key=..., reverse=True): a stable sort, largest key first
sort_posts(ps) == SortDesc(<<>>, ps)

\* posts[:k + 1]: a slice that is one too long
FirstKOffByOne(ps, k) == SubSeq(ps, 1, Min(k + 1, Len(ps)))

\* posts[:k]
FirstK(ps, k) == SubSeq(ps, 1, Min(k, Len(ps)))

\* One <article class="post-preview"> of the index page
PreviewHtml(p) ==
    <<"<article>">> \o Str(p.slug) \o Str(p.title) \o DateText(p.date)
        \o p.description \o <<"</article>">>

\* generate_index_page: the posts shown and the page written
generate_index_page(ps, tmpl) ==
    LET shown == FirstK(ps, IndexLimit)
        inner == render_template(tmpl.index,
                    << [key |-> <<"posts">>,
                        value |-> Flatten([i \in 1..Len(shown) |-> PreviewHtml(shown[i])])],
                       [key |-> <<"site_title">>, value |-> SiteTitle],
                       [key |-> <<"site_description">>, value |-> <<"SITE_DESCRIPTION">>] >>)
    IN  [entries |-> shown, path |-> IndexPath,
         html |-> RenderInBase(tmpl, SiteTitle, inner)]

RECURSIVE SelectSeq2(_, _)
\* The posts of ps, in order, whose date is set and falls in year y
SelectSeq2(ps, y) ==
    IF ps = <<>> THEN <<>>
    ELSE IF Head(ps).date # NoDate /\ Head(ps).date.year = y
         THEN <<Head(ps)>> \o SelectSeq2(Tail(ps), y)
         ELSE SelectSeq2(Tail(ps), y)

RECURSIVE YearsAsc(_)
\* sorted(posts_by_year.keys()) without reverse=True
YearsAsc(ys) ==
    IF ys = {} THEN <<>>
    ELSE LET m == CHOOSE y \in ys : \A z \in ys : y <= z
         IN  <<m>> \o YearsAsc(ys \ {m})

RECURSIVE YearsDesc(_)
\* sorted(posts_by_year.keys(), reverse=True)
YearsDesc(ys) ==
    IF ys = {} THEN <<>>
    ELSE LET m == CHOOSE y \in ys : \A z \in ys : z <= y
         IN  <<m>> \o YearsDesc(ys \ {m})

\* posts_by_year of generate_archive_page, listed by year descending
ArchiveGroups(ps) ==
    LET years == {ps[i].date.year : i \in {j \in 1..Len(ps) : ps[j].date # NoDate}}
        order == YearsDesc(years)
    IN  [k \in 1..Len(order) |-> [year |-> order[k], posts |-> SelectSeq2(ps, order[k])]]

\* One year of the archive page
YearHtml(g) ==
    <<"<h2>", ToString(g.year), "</h2>", "<ul>">>
        \o Flatten([i \in 1..Len(g.posts) |->
               <<"<li>">> \o Str(g.posts[i].slug) \o Str(g.posts[i].title) \o <<"</li>">>])
        \o <<"</ul>">>

\* generate_archive_page: the groups listed and the page written
generate_archive_page(ps, tmpl) ==
    LET groups == ArchiveGroups(ps)
    IN  [groups |-> groups, path |-> ArchivePath,
         html |-> RenderInBase(tmpl, <<"Archive">>,
                     <<"<h1>">> \o Flatten([k \in 1..Len(groups) |-> YearHtml(groups[k])]))]

\* One <item> of the feed
ItemHtml(p) ==
    <<"<item>">> \o Str(p.title) \o Str(p.slug) \o p.description
        \o DateText(p.date) \o <<"</item>">>

\* generate_rss_feed: the posts listed and the file written
generate_rss_feed(ps) ==
    LET listed == FirstK(ps, FeedLimit)
    IN  [items |-> listed, path |-> FeedPath,
         html |-> <<"<rss>">> \o Flatten([i \in 1..Len(listed) |-> ItemHtml(listed[i])])
                      \o <<"</rss>">>]

(***************************************************************************)
(* The inputs: the source files of content/posts and content/pages.        *)
(***************************************************************************)
Line(key, val) == [colon |-> TRUE, key |-> key, val |-> val]
NoColonLine(val) == [colon |-> FALSE, key |-> "", val |-> val]

HeaderFile(stem, header, body) ==
    [stem |-> stem, fm |-> TRUE, closed |-> TRUE, header |-> header, body |-> body]

UnclosedFile(stem) ==
    [stem |-> stem, fm |-> TRUE, closed |-> FALSE, header |-> <<>>, body |-> <<>>]

PlainFile(stem, body) ==
    [stem |-> stem, fm |-> FALSE, closed |-> FALSE, header |-> <<>>, body |-> body]

PostFileSet ==
    { HeaderFile(<<"f1">>,
          << Line("title", <<" ", "\"", "A", " ", "b", "!", "\"">>),
             NoColonLine(<<"x">>),
             Line("date", <<" ", "2024", "-", "01", "-", "01">>),
             Line("tags", <<" ", "[", "a", ",", " ", "b", "]">>) >>,
          <<"x">>),
      HeaderFile(<<"f2">>,
          << Line("title", <<" ", "a", " ", "b">>),
             Line("date", <<" ", "2023", "-", "12", "-", "01">>),
             Line("author", <<" ", "x">>) >>,
          <<"x", " ", "x">>),
      HeaderFile(<<"f3">>,
          << Line("title", <<" ", "x">>),
             Line("slug", <<" ", "A", " ", "b">>) >>,
          <<>>),
      HeaderFile(<<"f4">>,
          << Line("title", <<" ", "p">>),
             Line("date", <<" ", "0001", "-", "01", "-", "01">>),
             Line("description", <<" ", "d">>) >>,
          <<"x">>),
      HeaderFile(<<"f5">>,
          << Line("title", <<" ", "e">>),
             Line("date", <<" ", "2024", "-", "13", "-", "01">>) >>,
          <<"x">>),
      PlainFile(<<"2024", "-", "01", "-", "01", "-", "x">>, <<"$", "x", "$">>),
      PlainFile(<<"n">>, <<"x">>) }

PageFileSet ==
    { HeaderFile(<<"g1">>, << Line("title", <<" ", "i", "n", "d", "e", "x">>) >>, <<"x">>),
      HeaderFile(<<"g2">>,
          << Line("title", <<" ", "a", " ", "b">>),
             Line("date", <<" ", "2023", "-", "02", "-", "30">>) >>,
          <<"x">>),
      UnclosedFile(<<"g3">>),
      HeaderFile(<<"g4">>,
          << Line("title", <<" ", "d">>),
             Line("date", <<" ", "2024", "-", "1", "-", "5">>) >>,
          <<"FENCE_mermaid">>) }

\* The sequences of at most n different files of a directory
RECURSIVE FileLists(_, _)
FileLists(files, n) ==
    IF n = 0 THEN {<<>>}
    ELSE LET shorter == FileLists(files, n - 1)
         IN  shorter \cup
             { Append(l, f) : l \in {m \in shorter : Len(m) = n - 1},
                              f \in files }

Distinct(l) == \A i, j \in 1..Len(l) : i # j => l[i] # l[j]

\* The decimal digits of a number below 100
DigitsOf(i) ==
    IF i < 10 THEN <<ToString(i)>> ELSE <<ToString(i \div 10), ToString(i % 10)>>

\* The i-th file of a long directory of posts: a header with a title of its
\* own, undated or dated in one of two years
ManyFile(i, dated) ==
    HeaderFile(<<"m">> \o DigitsOf(i),
        IF dated
        THEN << Line("title", <<" ", "p">> \o DigitsOf(i)),
                Line("date", IF i % 2 = 0
                             THEN <<" ", "2023", "-", "12", "-", "01">>
                             ELSE <<" ", "2024", "-", "01", "-", "01">>) >>
        ELSE << Line("title", <<" ", "p">> \o DigitsOf(i)) >>,
        <<"x">>)

\* The output directory left by an earlier build
OldOutput ==
    [exists |-> TRUE,
     files |-> [q \in {IndexPath, <<"posts/", "o", "l", "d", ".html">>} |-> <<"old">>]]

NoTemplates == [base |-> <<>>, post |-> <<>>, index |-> <<>>]

InitBuildState ==
    /\ pc = "entry"
    /\ output = OldOutput
    /\ templates = NoTemplates
    /\ posts = <<>>
    /\ pageIdx = 0
    /\ written = <<>>
    /\ indexEntries = <<>>
    /\ feedItems = <<>>
    /\ archive = <<>>
    /\ tpl = <<>>
    /\ ctx = <<>>
    /\ rendered = <<>>
    /\ mathText = <<>>
    /\ inlineMatches = <<>>

\* A few posts of every kind, in any glob order, and no page
InitPosts ==
    /\ postFiles \in {l \in FileLists(PostFileSet, MaxPosts) : Distinct(l)}
    /\ pageFiles = <<>>
    /\ templatesOnDisk \in BOOLEAN
    /\ staticOnDisk \in BOOLEAN
    /\ InitBuildState

\* A few pages of every kind, in any glob order, behind fewer posts
InitPages ==
    /\ postFiles \in {l \in FileLists(PostFileSet, MaxPostsWithPages) : Distinct(l)}
    /\ pageFiles \in {l \in FileLists(PageFileSet, MaxPages) : Distinct(l)}
    /\ templatesOnDisk \in BOOLEAN
    /\ staticOnDisk \in BOOLEAN
    /\ InitBuildState

\* Many posts, all dated but at most two of them
InitMany ==
    /\ \E n \in 1..MaxMany :
         \E undated \in {u \in SUBSET (1..n) : Cardinality(u) <= 2} :
            postFiles = [i \in 1..n |-> ManyFile(i, i \notin undated)]
    /\ pageFiles = <<>>
    /\ templatesOnDisk = TRUE
    /\ staticOnDisk = TRUE
    /\ InitBuildState

Init == InitPosts \/ InitPages \/ InitMany

(***************************************************************************)
(* deploy.py                                                               *)
(***************************************************************************)
\* clean_build up to the start of the build: the output directory is
\* removed, then build.py is run.
clean_build ==
    /\ pc = "entry"
    /\ output' = [exists |-> FALSE, files |-> NoFiles]
    /\ pc' = "start"
    /\ UNCHANGED <<postFiles, pageFiles, templatesOnDisk, staticOnDisk,
                   templates, posts, pageIdx, written, indexEntries, feedItems,
                   archive, renderVars, mathVars>>

(***************************************************************************)
(* build.py: generate_site                                                 *)
(***************************************************************************)
\* python build.py
main ==
    /\ pc = "entry"
    /\ pc' = "start"
    /\ UNCHANGED <<buildVars, renderVars, mathVars>>

\* The start of generate_site: the output directory is removed and made
\* anew, the static files are copied, the templates are loaded, and
\* create_default_templates is called when the base template is empty.
Prepare ==
    /\ pc = "start"
    /\ output' = [exists |-> TRUE,
                  files |-> IF staticOnDisk
                            THEN WriteFile(NoFiles, StaticPath, <<"static">>)
                            ELSE NoFiles]
    /\ templates' = load_templates(templatesOnDisk)
    /\ pc' = "posts"
    /\ UNCHANGED <<postFiles, pageFiles, templatesOnDisk, staticOnDisk, posts,
                   pageIdx, written, indexEntries, feedItems, archive,
                   renderVars, mathVars>>

\* One iteration of the loop over post_files
ProcessPost ==
    /\ pc = "posts"
    /\ Len(posts) < Len(postFiles)
    /\ LET r == parse_content(postFiles[Len(posts) + 1])
           page == generate_post_page(r.post, templates)
       IN  IF ~r.ok
           THEN /\ pc' = "aborted"
                /\ UNCHANGED <<posts, output, written>>
           ELSE /\ pc' = "posts"
                /\ posts' = Append(posts, r.post)
                /\ output' = [output EXCEPT !.files = WriteFile(@, page.path, page.html)]
                /\ written' = Append(written, page.path)
    /\ UNCHANGED <<postFiles, pageFiles, templatesOnDisk, staticOnDisk, templates,
                   pageIdx, indexEntries, feedItems, archive,
                   renderVars, mathVars>>

\* posts.sort(...)
SortPosts ==
    /\ pc = "posts"
    /\ Len(posts) = Len(postFiles)
    /\ posts' = sort_posts(posts)
    /\ pc' = "sorted"
    /\ UNCHANGED <<postFiles, pageFiles, templatesOnDisk, staticOnDisk, output,
                   templates, pageIdx, written, indexEntries, feedItems, archive,
                   renderVars, mathVars>>

\* if posts: generate_index_page, generate_archive_page, generate_rss_feed
Aggregate ==
    /\ pc = "sorted"
    /\ pc' = "pages"
    /\ IF posts # <<>>
       THEN LET ix == generate_index_page(posts, templates)
                ar == generate_archive_page(posts, templates)
                fd == generate_rss_feed(posts)
            IN  /\ indexEntries' = ix.entries
                /\ archive' = ar.groups
                /\ feedItems' = fd.items
                /\ output' = [output EXCEPT !.files =
                       WriteFile(WriteFile(WriteFile(@, ix.path, ix.html),
                                           ar.path, ar.html),
                                 fd.path, fd.html)]
                /\ written' = written \o <<ix.path, ar.path, fd.path>>
       ELSE UNCHANGED <<indexEntries, archive, feedItems, output, written>>
    /\ UNCHANGED <<postFiles, pageFiles, templatesOnDisk, staticOnDisk, templates,
                   posts, pageIdx, renderVars, mathVars>>

\* One iteration of the loop over page_files
ProcessPage ==
    /\ pc = "pages"
    /\ pageIdx < Len(pageFiles)
    /\ LET r == parse_content(pageFiles[pageIdx + 1])
           page == generate_page(r.post, templates)
       IN  IF ~r.ok
           THEN /\ pc' = "aborted"
                /\ UNCHANGED <<pageIdx, output, written>>
           ELSE /\ pc' = "pages"
                /\ pageIdx' = pageIdx + 1
                /\ output' = [output EXCEPT !.files = WriteFile(@, page.path, page.html)]
                /\ written' = Append(written, page.path)
    /\ UNCHANGED <<postFiles, pageFiles, templatesOnDisk, staticOnDisk, templates,
                   posts, indexEntries, feedItems, archive,
                   renderVars, mathVars>>

\* The end of generate_site: "Site built successfully!"
Finish ==
    /\ pc = "pages"
    /\ pageIdx = Len(pageFiles)
    /\ pc' = "done"
    /\ UNCHANGED <<buildVars, renderVars, mathVars>>

Next ==
    \/ clean_build
    \/ main
    \/ Prepare
    \/ ProcessPost
    \/ SortPosts
    \/ Aggregate
    \/ ProcessPage
    \/ Finish

Spec == Init /\ [][Next]_vars

TypeOK ==
    /\ pc \in {"entry", "start", "posts", "sorted", "pages", "done", "aborted"}
    /\ pageIdx \in 0..Len(pageFiles)
    /\ Len(posts) <= Len(postFiles)

(***************************************************************************)
(* render_template on its own: a template and keyword arguments drawn      *)
(* from small sets, rendered once and then once more.                      *)
(***************************************************************************)
KeyA == <<"a">>
KeyB == <<"b">>

TemplatePieces ==
    { <<"x">>, Placeholder(KeyA), SpacedPlaceholder(KeyA), Placeholder(KeyB),
      <<"{", "{">>, <<"b", "}", "}">> }

ValueSet ==
    { <<"x">>, Placeholder(KeyB), SpacedPlaceholder(KeyA), <<"{", "{">> }

RECURSIVE PieceLists(_)
PieceLists(n) ==
    IF n = 0 THEN {<<>>}
    ELSE LET shorter == PieceLists(n - 1)
         IN  shorter \cup { Append(l, q) : l \in shorter, q \in TemplatePieces }

TemplateSet == { Flatten(l) : l \in PieceLists(MaxPieces) }

ContextSet ==
    UNION { { << [key |-> KeyA, value |-> va], [key |-> KeyB, value |-> vb] >>,
              << [key |-> KeyB, value |-> vb], [key |-> KeyA, value |-> va] >> }
            : va \in ValueSet, vb \in ValueSet }

InitRender ==
    /\ pc = "render"
    /\ tpl \in TemplateSet
    /\ ctx \in ContextSet
    /\ rendered = <<>>
    /\ mathText = <<>>
    /\ inlineMatches = <<>>
    /\ postFiles = <<>>
    /\ pageFiles = <<>>
    /\ templatesOnDisk = TRUE
    /\ staticOnDisk = TRUE
    /\ output = OldOutput
    /\ templates = NoTemplates
    /\ posts = <<>>
    /\ pageIdx = 0
    /\ written = <<>>
    /\ indexEntries = <<>>
    /\ feedItems = <<>>
    /\ archive = <<>>

\* render_template(tpl, **ctx)
Render ==
    /\ pc = "render"
    /\ rendered' = render_template(tpl, ctx)
    /\ pc' = "rendered"
    /\ UNCHANGED <<tpl, ctx, buildVars, mathVars>>

\* render_template(render_template(tpl, **ctx), **ctx)
Rerender ==
    /\ pc = "rendered"
    /\ rendered' = render_template(rendered, ctx)
    /\ pc' = "rerendered"
    /\ UNCHANGED <<tpl, ctx, buildVars, mathVars>>

NextRender == Render \/ Rerender

SpecRender == InitRender /\ [][NextRender]_vars

(***************************************************************************)
(* MathPreprocessor.run on its own: four re.sub passes over the joined     *)
(* lines.  A character of the text is [ch, by]; by names the pass that     *)
(* emitted the character and is "" for a character of the input.  The      *)
(* passes read ch only: AtomicString is a str, and re.sub works on the     *)
(* plain joined text.                                                      *)
(***************************************************************************)
Dollar == "$"

Backslash == "\\"

\* '<div class="math math-display">&#92;[' and '&#92;]</div>'
DisplayOpen == << "<div class=\"math math-display\">", "&#92;", "[" >>

DisplayClose == << "&#92;", "]", "</div>" >>

\* '<span class="math math-inline">&#92;(' and '&#92;)</span>'
InlineOpen == << "<span class=\"math math-inline\">", "&#92;", "(" >>

InlineClose == << "&#92;", ")", "</span>" >>

\* The four substitutions of run, in the order of the code
DisplayDollars ==
    [by |-> "display", inline |-> FALSE,
     open |-> <<Dollar, Dollar>>, close |-> <<Dollar, Dollar>>,
     pre |-> DisplayOpen, post |-> DisplayClose]

InlineDollars ==
    [by |-> "inline", inline |-> TRUE,
     open |-> <<Dollar>>, close |-> <<Dollar>>,
     pre |-> InlineOpen, post |-> InlineClose]

InlineParens ==
    [by |-> "paren", inline |-> FALSE,
     open |-> <<Backslash, "(">>, close |-> <<Backslash, ")">>,
     pre |-> InlineOpen, post |-> InlineClose]

DisplayBrackets ==
    [by |-> "bracket", inline |-> FALSE,
     open |-> <<Backslash, "[">>, close |-> <<Backslash, "]">>,
     pre |-> DisplayOpen, post |-> DisplayClose]

\* The text of the document as it enters run
InputText(s) == [k \in 1..Len(s) |-> [ch |-> s[k], by |-> ""]]

\* The replacement a pass returns for a match with group(1) = group
Replacement(p, group) ==
    [k \in 1..Len(p.pre) |-> [ch |-> p.pre[k], by |-> p.by]]
    \o [k \in 1..Len(group) |-> [ch |-> group[k].ch, by |-> p.by]]
    \o [k \in 1..Len(p.post) |-> [ch |-> p.post[k], by |-> p.by]]

\* The literal lit stands in t at position i
LiteralAt(t, i, lit) ==
    /\ i + Len(lit) - 1 <= Len(t)
    /\ \A k \in 1..Len(lit) : t[i + k - 1].ch = lit[k]

\* The first position at or after from where lit stands, 0 when there is none
FirstAt(t, from, lit) ==
    LET at == { j \in from..Len(t) : LiteralAt(t, j, lit) }
    IN  IF at = {} THEN 0 ELSE CHOOSE j \in at : \A k \in at : j <= k

\* (.*?) with DOTALL between open and close: the position of the first close
\* after the open at i, 0 when the pattern does not match at i
DelimitedClose(t, i, p) ==
    IF LiteralAt(t, i, p.open) THEN FirstAt(t, i + Len(p.open), p.close) ELSE 0

\* \$([^\s\$][^\$]*?[^\s\$]|[^\s\$])\$ : the group holds no '$', so the
\* closing '$' is the next one after i; the group is not empty and neither
\* its first nor its last character is white space
InlineDollarClose(t, i) ==
    IF LiteralAt(t, i, <<Dollar>>)
    THEN LET k == FirstAt(t, i + 1, <<Dollar>>)
         IN  IF /\ k >= i + 2
                /\ t[i + 1].ch \notin SpaceChars
                /\ t[k - 1].ch \notin SpaceChars
             THEN k ELSE 0
    ELSE 0

\* Where the match of pass p starting at i closes, 0 when there is none
CloseOf(t, i, p) ==
    IF p.inline THEN InlineDollarClose(t, i) ELSE DelimitedClose(t, i, p)

RECURSIVE ReSubFrom(_, _, _)
\* re.sub(pattern, replace, text): leftmost matches, not overlapping
ReSubFrom(t, i, p) ==
    IF i > Len(t) THEN <<>>
    ELSE LET j == CloseOf(t, i, p)
         IN  IF j = 0 THEN <<t[i]>> \o ReSubFrom(t, i + 1, p)
             ELSE Replacement(p, SubSeq(t, i + Len(p.open), j - 1))
                  \o ReSubFrom(t, j + Len(p.close), p)

ReSub(t, p) == ReSubFrom(t, 1, p)

RECURSIVE MatchesFrom(_, _, _)
\* m.group(0) of every call of the replace function of pass p, in order
MatchesFrom(t, i, p) ==
    IF i > Len(t) THEN <<>>
    ELSE LET j == CloseOf(t, i, p)
         IN  IF j = 0 THEN MatchesFrom(t, i + 1, p)
             ELSE <<SubSeq(t, i, j + Len(p.close) - 1)>>
                  \o MatchesFrom(t, j + Len(p.close), p)

Matches(t, p) == MatchesFrom(t, 1, p)

\* The text a document holds: any short run of these pieces
MathPieces ==
    { <<Dollar>>, <<Dollar, Dollar>>, <<"x">>, <<" ">>,
      <<Backslash, "(">>, <<Backslash, ")">>,
      <<Backslash, "[", "y", Backslash, "]">> }

RECURSIVE MathPieceLists(_)
MathPieceLists(n) ==
    IF n = 0 THEN {<<>>}
    ELSE LET shorter == MathPieceLists(n - 1)
         IN  shorter \cup { Append(l, q) : l \in shorter, q \in MathPieces }

MathTextSet == { Flatten(l) : l \in MathPieceLists(MaxMathPieces) }

InitMath ==
    /\ pc = "math"
    /\ mathText \in { InputText(s) : s \in MathTextSet }
    /\ inlineMatches = <<>>
    /\ tpl = <<>>
    /\ ctx = <<>>
    /\ rendered = <<>>
    /\ postFiles = <<>>
    /\ pageFiles = <<>>
    /\ templatesOnDisk = TRUE
    /\ staticOnDisk = TRUE
    /\ output = OldOutput
    /\ templates = NoTemplates
    /\ posts = <<>>
    /\ pageIdx = 0
    /\ written = <<>>
    /\ indexEntries = <<>>
    /\ feedItems = <<>>
    /\ archive = <<>>

\* text = re.sub(r'\$\$(.*?)\$\$', replace_display, text, flags=re.DOTALL)
DisplayPass ==
    /\ pc = "math"
    /\ mathText' = ReSub(mathText, DisplayDollars)
    /\ pc' = "display_done"
    /\ UNCHANGED <<inlineMatches, buildVars, renderVars>>

\* text = re.sub(r'\$([^\s\$][^\$]*?[^\s\$]|[^\s\$])\$', replace_inline, text)
InlinePass ==
    /\ pc = "display_done"
    /\ inlineMatches' = Matches(mathText, InlineDollars)
    /\ mathText' = ReSub(mathText, InlineDollars)
    /\ pc' = "inline_done"
    /\ UNCHANGED <<buildVars, renderVars>>

\* text = re.sub(r'\\\((.*?)\\\)', ..., text, flags=re.DOTALL)
ParenPass ==
    /\ pc = "inline_done"
    /\ mathText' = ReSub(mathText, InlineParens)
    /\ pc' = "paren_done"
    /\ UNCHANGED <<inlineMatches, buildVars, renderVars>>

\* text = re.sub(r'\\\[(.*?)\\\]', ..., text, flags=re.DOTALL)
BracketPass ==
    /\ pc = "paren_done"
    /\ mathText' = ReSub(mathText, DisplayBrackets)
    /\ pc' = "math_done"
    /\ UNCHANGED <<inlineMatches, buildVars, renderVars>>

NextMath == DisplayPass \/ InlinePass \/ ParenPass \/ BracketPass

SpecMath == InitMath /\ [][NextMath]_vars

(***************************************************************************)
(* Properties.                                                             *)
(***************************************************************************)
\* The position of the source file of post p in the glob order
Discovered(p) == CHOOSE k \in 1..Len(postFiles) : postFiles[k].stem = p.filepath

\* The Sort step has run
Sorted == pc \in {"sorted", "pages", "done"}
             \/ (pc = "aborted" /\ Len(posts) = Len(postFiles))

\* The Aggregate step has run
Aggregated == pc \in {"pages", "done"}
                 \/ (pc = "aborted" /\ Len(posts) = Len(postFiles))

\* C1: after the Sort step the posts are ordered by date descending, every
\* undated post comes after every dated post, and posts that compare equal
\* (both undated, or the same date) keep their discovery order.
C1_SortedDatedFirstStable ==
    Sorted =>
        \A i, j \in 1..Len(posts) : i < j =>
            /\ (posts[i].date # NoDate /\ posts[j].date # NoDate)
                   => ~DateLess(posts[i].date, posts[j].date)
            /\ ~(posts[i].date = NoDate /\ posts[j].date # NoDate)
            /\ posts[i].date = posts[j].date
                   => Discovered(posts[i]) < Discovered(posts[j])

\* C2: a build that has aborted on a fatal error has left the previous
\* output directory untouched (there is no partial output).
C2_AbortLeavesOldOutput == pc = "aborted" => output = OldOutput

RECURSIVE SubstituteOnce(_, _)
\* One pass over the template, left to right: a placeholder of a key of the
\* mapping is replaced by the key's value, and the inserted text is not
\* looked at again.
SubstituteOnce(t, context) ==
    IF t = <<>> THEN <<>>
    ELSE LET forms == UNION { { <<context[i].value, Placeholder(context[i].key)>>,
                                <<context[i].value, SpacedPlaceholder(context[i].key)>> }
                              : i \in 1..Len(context) }
             hits == { e \in forms : /\ Len(e[2]) <= Len(t)
                                     /\ SubSeq(t, 1, Len(e[2])) = e[2] }
         IN  IF hits = {} THEN <<Head(t)>> \o SubstituteOnce(Tail(t), context)
             ELSE LET e == CHOOSE h \in hits : TRUE
                  IN  e[1] \o SubstituteOnce(SubSeq(t, Len(e[2]) + 1, Len(t)), context)

\* C3: substitution is not recursive: the result of render_template is the
\* template with each placeholder replaced by its value, the inserted
\* values being left as they are.
C3_NotRecursive == pc = "rendered" => rendered = SubstituteOnce(tpl, ctx)

\* C4: the index holds exactly the first min(5, n) posts of the sorted list
\* and the feed exactly the first min(10, n), in sorted order.
C4_IndexAndFeedBounded ==
    Aggregated =>
        /\ Len(indexEntries) = Min(IndexLimit, Len(posts))
        /\ \A i \in 1..Len(indexEntries) : indexEntries[i] = posts[i]
        /\ Len(feedItems) = Min(FeedLimit, Len(posts))
        /\ \A i \in 1..Len(feedItems) : feedItems[i] = posts[i]
        /\ posts # <<>> => {IndexPath, FeedPath} \subseteq DOMAIN output.files

\* A build with more posts than the feed takes has completed, and the
\* sort has moved a post.
C4_Witness ==
    /\ pc = "done"
    /\ Len(posts) > FeedLimit
    /\ Len(feedItems) = FeedLimit
    /\ Len(indexEntries) = IndexLimit
    /\ Discovered(posts[1]) # 1

\* The places <<k, j>> of the archive where post p is listed
ArchivePlaces(p) ==
    { pl \in UNION { {<<k, j>> : j \in 1..Len(archive[k].posts)} : k \in 1..Len(archive) } :
        archive[pl[1]].posts[pl[2]] = p }

\* The position of post p in the sorted list
SortedPos(p) == CHOOSE i \in 1..Len(posts) : posts[i].filepath = p.filepath

\* C5: the archive lists each dated post exactly once, under the year of
\* its date, and no undated post; the years are strictly descending and
\* the posts of a year are in the order of the sorted list.
C5_ArchiveByYear ==
    (Aggregated /\ posts # <<>>) =>
        /\ \A i \in 1..Len(posts) :
              IF posts[i].date = NoDate
              THEN ArchivePlaces(posts[i]) = {}
              ELSE /\ Cardinality(ArchivePlaces(posts[i])) = 1
                   /\ \A pl \in ArchivePlaces(posts[i]) :
                         archive[pl[1]].year = posts[i].date.year
        /\ \A k \in 1..Len(archive) : \A j \in 1..Len(archive[k].posts) :
              \E i \in 1..Len(posts) : posts[i] = archive[k].posts[j]
        /\ \A k, l \in 1..Len(archive) : k < l => archive[k].year > archive[l].year
        /\ \A k \in 1..Len(archive) : \A j1, j2 \in 1..Len(archive[k].posts) :
              j1 < j2 => SortedPos(archive[k].posts[j1]) < SortedPos(archive[k].posts[j2])
        /\ ArchivePath \in DOMAIN output.files

\* A completed build whose archive has two years, one of them with two
\* posts, beside an undated post.
C5_Witness ==
    /\ pc = "done"
    /\ Len(archive) >= 2
    /\ \E k \in 1..Len(archive) : Len(archive[k].posts) >= 2
    /\ \E i \in 1..Len(posts) : posts[i].date = NoDate

\* C6: within one build no output path is written more than once.
C6_NoPathWrittenTwice ==
    \A i, j \in 1..Len(written) : i # j => written[i] # written[j]

\* The header of the file has a date line whose value strptime rejects
HasBadHeaderDate(file) ==
    /\ file.fm
    /\ file.closed
    /\ \E i \in 1..Len(file.header) :
          /\ file.header[i].colon
          /\ file.header[i].key = "date"
          /\ StrptimeFails(Strip(Strip(file.header[i].val, SpaceChars), QuoteChars))

\* The source file of post p
FileOf(p) == postFiles[Discovered(p)]

\* C7: a header date that fails to parse is fatal: a build with such a
\* file never completes, and no such file becomes a post or a written page.
C7_BadDateAborts ==
    /\ pc = "done" =>
          /\ \A i \in 1..Len(postFiles) : ~HasBadHeaderDate(postFiles[i])
          /\ \A i \in 1..Len(pageFiles) : ~HasBadHeaderDate(pageFiles[i])
    /\ \A i \in 1..Len(posts) : ~HasBadHeaderDate(FileOf(posts[i]))
    /\ \A i \in 1..pageIdx : ~HasBadHeaderDate(pageFiles[i])

\* The build has aborted on a file whose header date does not parse.
C7_Witness ==
    /\ pc = "aborted"
    /\ \/ /\ Len(posts) < Len(postFiles)
          /\ HasBadHeaderDate(postFiles[Len(posts) + 1])
       \/ /\ Len(posts) = Len(postFiles)
          /\ pageIdx < Len(pageFiles)
          /\ HasBadHeaderDate(pageFiles[pageIdx + 1])

\* A filesystem-safe token: lowercase word characters and hyphens only
SafeSlug(slug) ==
    /\ slug # None
    /\ \A i \in 1..Len(slug) : slug[i] \in LowerLetters \cup Digits \cup {"_", "-"}

\* C8: every document that has been written has a slug that is set and is
\* made of lowercase word characters and hyphens only.
C8_WrittenSlugsSafe ==
    /\ \A i \in 1..Len(posts) : SafeSlug(posts[i].slug)
    /\ \A i \in 1..pageIdx : SafeSlug(parse_content(pageFiles[i]).post.slug)

\* C9: no build completes having written pages through an empty base
\* layout.
C9_NoEmptyLayout == (pc = "done" /\ written # <<>>) => templates.base # <<>>

\* C10: a completed build leaves index.html, archive.html and feed.xml.
C10_AggregatesAlwaysWritten ==
    pc = "done" => {IndexPath, ArchivePath, FeedPath} \subseteq DOMAIN output.files

\* The keys parse_frontmatter acts on
RecognizedKeys == {"title", "date", "slug", "tags", "description"}

\* The line is one the parser is to skip: no colon, or an unknown key
SkippedLine(l) == ~l.colon \/ l.key \notin RecognizedKeys

\* The file has no defect but skipped lines and missing optional metadata:
\* its header, if any, is closed and its date, if any, parses.
OnlyRecoverableDefects(file) ==
    IF file.fm
    THEN file.closed /\ ~HasBadHeaderDate(file)
    ELSE ~(FilenameMatches(file.stem) /\ StrptimeFails(SubSeq(file.stem, 1, 5)))

\* The file with the lines to skip taken out of its header
WithoutSkippedLines(file) ==
    [file EXCEPT !.header = SelectSeq(@, LAMBDA l : ~SkippedLine(l))]

\* C11: when the only defects of the documents are header lines without a
\* colon, unknown keys and missing optional metadata, the build never
\* aborts, each document read is what it would be without those lines, and
\* a completed build has rendered and written every document.
C11_RecoverableNeverAborts ==
    ( /\ \A i \in 1..Len(postFiles) : OnlyRecoverableDefects(postFiles[i])
      /\ \A i \in 1..Len(pageFiles) : OnlyRecoverableDefects(pageFiles[i]) )
    =>
    /\ pc # "aborted"
    /\ \A i \in 1..Len(posts) :
          /\ posts[i] = parse_content(WithoutSkippedLines(FileOf(posts[i]))).post
          /\ PostPath(posts[i]) \in DOMAIN output.files
          /\ output.files[PostPath(posts[i])] # <<>> \/ templates.base = <<>>
    /\ \A i \in 1..pageIdx :
          PagePath(parse_content(WithoutSkippedLines(pageFiles[i])).post)
              \in DOMAIN output.files
    /\ pc = "done" => /\ Len(posts) = Len(postFiles)
                      /\ pageIdx = Len(pageFiles)
                      /\ Len(written) >= Len(postFiles) + Len(pageFiles)

\* A completed build that read a header line without a colon, a header
\* line with an unknown key and a document with no date.
C11_Witness ==
    /\ pc = "done"
    /\ \A i \in 1..Len(postFiles) : OnlyRecoverableDefects(postFiles[i])
    /\ \E i \in 1..Len(postFiles) : \E k \in 1..Len(postFiles[i].header) :
          ~postFiles[i].header[k].colon
    /\ \E i \in 1..Len(postFiles) : \E k \in 1..Len(postFiles[i].header) :
          /\ postFiles[i].header[k].colon
          /\ postFiles[i].header[k].key \notin RecognizedKeys
    /\ \E i \in 1..Len(posts) : posts[i].date = NoDate /\ posts[i].tags = <<>>

\* The passes that have run when the math transformer is at position at
PassesRun(at) ==
    CASE at = "math" -> {}
      [] at = "display_done" -> {"display"}
      [] at = "inline_done" -> {"display", "inline"}
      [] at = "paren_done" -> {"display", "inline", "paren"}
      [] at = "math_done" -> {"display", "inline", "paren", "bracket"}
      [] OTHER -> {}

\* Every emitted character of the text comes from a pass that has run
PassOrder ==
    \A k \in 1..Len(mathText) : mathText[k].by \in PassesRun(pc) \cup {""}

\* The match m of a pass holds a character emitted by the display pass
TouchesDisplay(m) == \E k \in 1..Len(m) : m[k].by = "display"

\* C12: the passes of the math transformer run in the order display $$...$$,
\* inline $...$, \(...\), \[...\], and no match of the inline $...$ pass
\* contains or crosses a character of a fragment emitted by the display pass.
C12_InlineKeepsOffDisplay ==
    /\ PassOrder
    /\ \A n \in 1..Len(inlineMatches) : ~TouchesDisplay(inlineMatches[n])

====
